---------------------------- MODULE Spec2Model ----------------------------
(***************************************************************************)
(* A model of the sorting animator (src/main.cpp, src/sorting.h,           *)
(* src/sorting_animator.cpp).                                              *)
(*                                                                         *)
(* The state is the animator's mode, the selection flags of the registered *)
(* algorithms, sort_n, sort_data, sort_queue, sort_threads, the mutex      *)
(* window_m, the main thread's position in the event loop / sort_launch,   *)
(* and one record per running sort thread (top-level threads and the       *)
(* threads the parallel sorts spawn).  A sort thread advances one          *)
(* statement that touches the shared vector at a time; purely local        *)
(* control flow between two such statements is folded into the step.       *)
(*                                                                         *)
(* Indices are the code's: elements, datasets, queue positions and         *)
(* algorithm indices count from 0 (TLA+ sequences from 1, see At/Put).     *)
(***************************************************************************)
EXTENDS Integers, Sequences, FiniteSets, TLC

VARIABLES
    mode,          \* SortingAnimator::mode
    selected,      \* sort_algos[a].selected, a function over 0..NumAlgos-1
    sort_n,        \* SortingAnimator::sort_n
    sort_data,     \* SortingAnimator::sort_data
    sort_queue,    \* SortingAnimator::sort_queue
    sort_threads,  \* SortingAnimator::sort_threads (joinable or not)
    window_m,      \* SortingAnimator::window_m: the holder's id, or Free
    thr,           \* the running sort threads: thread id -> thread record
    main,          \* the main thread: position in the event loop / sort_launch
    window_open,   \* window.isOpen()
    base,          \* history: the value sequence the current run started from
    spawned        \* history: what sort_launch handed to each top-level thread

vars == <<mode, selected, sort_n, sort_data, sort_queue, sort_threads,
          window_m, thr, main, window_open, base, spawned>>

-----------------------------------------------------------------------------
(* Bounds of the exploration *)

\* largest Quantity (sort_n) the configuration screen is given
MaxN == 3
\* largest number of algorithms selected at once
MaxSel == 2
\* largest total number of elements (selected algorithms * sort_n) of a run
MaxWork == 4
\* SortSpec: largest length of an input vector
MaxLen == 3
\* largest total number of elements of a run that is restarted (key R)
MaxRestartWork == 2
\* rand() returns a value in 0..MaxRand
MaxRand == 3
\* SortSpec: keys of an input vector are drawn from 1..MaxVal
MaxVal == 3

-----------------------------------------------------------------------------
(* Program constants *)

\* main.cpp registers nine algorithms
NumAlgos == 9
\* sort_cmp sets timer = 5
HighlightTimer == 5

\* the registration order of main.cpp
AlgoFn == <<"selection_sort", "insertion_sort", "bubble_sort", "merge_sort",
            "pmerge_sort", "quick_sort", "pquick_sort", "rpquick_sort",
            "std_sort">>

Algos == 0 .. (NumAlgos - 1)

\* SortingDatum(int v): timer is 0
SortingDatum(v) == [value |-> v, timer |-> 0]

\* SortingDatum(): value 0, timer 0
NoDatum == SortingDatum(0)

Free == <<>>
MainId == <<-1>>

-----------------------------------------------------------------------------
(* Sequences indexed from 0 *)

At(s, i) == s[i + 1]

Put(s, i, x) == [s EXCEPT ![i + 1] = x]

Values(s) == [k \in 1 .. Len(s) |-> s[k].value]

Last(s) == s[Len(s)]

Front(s) == SubSeq(s, 1, Len(s) - 1)

RECURSIVE Perms(_)
\* every ordering of the set S as a sequence (std::random_shuffle's outcomes)
Perms(S) ==
    IF S = {} THEN {<<>>}
    ELSE UNION {{<<x>> \o p : p \in Perms(S \ {x})} : x \in S}

RECURSIVE CountOf(_, _)
\* number of occurrences of x in the sequence s
CountOf(s, x) ==
    IF s = <<>> THEN 0
    ELSE (IF s[1] = x THEN 1 ELSE 0) + CountOf(Tail(s), x)

\* s and t hold the same multiset
SameMultiset(s, t) ==
    /\ Len(s) = Len(t)
    /\ \A k \in 1 .. Len(s) : CountOf(s, s[k]) = CountOf(t, s[k])

\* s is non-decreasing
Sorted(s) == \A k \in 1 .. (Len(s) - 1) : s[k] <= s[k + 1]

\* no value occurs twice in v
Distinct(v) == \A a, b \in 1 .. Len(v) : a # b => v[a] # v[b]

-----------------------------------------------------------------------------
(* Sort threads *)

\* a thread running fn on dataset d, range [lo, hi).  forks is history: the
\* number of threads started so far by the thread's function and, once they
\* are joined, by the threads it started
Thread(fn, d, lo, hi) ==
    [fn |-> fn, d |-> d, lo |-> lo, hi |-> hi, pc |-> "start",
     i |-> 0, j |-> 0, s |-> 0, tmp |-> NoDatum, u1 |-> <<>>, u2 |-> <<>>,
     stk |-> <<>>, cx |-> 0, cy |-> 0, ret |-> "", di |-> 0, dj |-> 0,
     forks |-> 0]

\* the function has returned: the thread can be joined
Done(t) ==
    [Thread(t.fn, t.d, t.lo, t.hi) EXCEPT !.pc = "done", !.forks = t.forks]

\* v.size() of the thread's vector
Size(t) == Len(At(sort_data, t.d))

\* v[i] of the thread's vector
V(t, i) == At(At(sort_data, t.d), i)

\* cmp(x, y): x and y are indices of v, or Local for the thread's local copy
Local == -1

Call(t, x, y, ret) == [t EXCEPT !.pc = "cmp_x", !.cx = x, !.cy = y, !.ret = ret]

\* lo + (hi - lo) / 2
Mid(lo, hi) == lo + ((hi - lo) \div 2)


-----------------------------------------------------------------------------
(* selection_sort: control flow between two statements that touch v *)

\* the inner loop, `for (j = i + 1; j < v.size(); j++)`; t.s is `smallest`
SelInner(t, n) ==
    IF t.j < n THEN Call(t, t.j, t.s, "sel_43")
    ELSE [t EXCEPT !.pc = "sel_46"]

\* the outer loop, `for (i = 0; i < v.size(); i++)`
SelOuter(t, n) ==
    IF t.i < n THEN SelInner([t EXCEPT !.s = t.i, !.j = t.i + 1], n)
    ELSE Done(t)

(* insertion_sort *)

\* `for (i = 1; i < v.size(); i++) if (cmp(v[i], v[i - 1]))`
InsOuter(t, n) ==
    IF t.i < n THEN Call(t, t.i, t.i - 1, "ins_57")
    ELSE Done(t)

\* `while (j < i) { temp = v[j]; ... }`, then the next i
InsRot(t, n) ==
    IF t.j < t.i THEN [t EXCEPT !.pc = "ins_63"]
    ELSE InsOuter([t EXCEPT !.i = t.i + 1, !.j = 0, !.tmp = NoDatum], n)

\* `while (j < i && cmp(v[j], v[i]))`
InsFind(t, n) ==
    IF t.j < t.i THEN Call(t, t.j, t.i, "ins_59")
    ELSE InsRot(t, n)

(* bubble_sort *)

\* `for (j = 0; j < v.size() - i - 1; j++) if (cmp(v[j + 1], v[j]))`,
\* inside `for (i = 0; i < v.size(); i++)`
RECURSIVE BubInner(_, _)
BubInner(t, n) ==
    IF t.i >= n THEN Done(t)
    ELSE IF t.j < n - t.i - 1 THEN Call(t, t.j + 1, t.j, "bub_80")
    ELSE BubInner([t EXCEPT !.i = t.i + 1, !.j = 0], n)

\* a bubble_sort that returns at once from two elements too
BubStartTwo(t, n) ==
    IF n <= 2 THEN Done(t) ELSE BubInner(t, n)

\* `if (v.size() <= 1) return;`
BubStart(t, n) ==
    IF n <= 1 THEN Done(t) ELSE BubInner(t, n)

-----------------------------------------------------------------------------
(* merge, merge_sort_helper, pmerge_sort_helper *)

\* a frame of a recursive helper: its range, the value partition returned,
\* and how far the helper has got (1: in its first recursive call,
\* 2: in its second, 3: in merge)
Frame(lo, hi, p, st) == [lo |-> lo, hi |-> hi, p |-> p, st |-> st]

SetTop(stk, f) == [stk EXCEPT ![Len(stk)] = f]

IsPMerge(fn) == fn \in {"pmerge_sort", "pmerge_sort_helper"}

IsPQuick(fn) == fn \in {"pquick_sort", "pquick_sort_helper"}

IsRPQuick(fn) == fn \in {"rpquick_sort", "rpquick_sort_helper"}

RECURSIVE MsEnter(_, _, _)
RECURSIVE MsReturn(_)

\* a copy that stops before the last element of u
MergeCopyShort(t) ==
    IF t.s + 1 < Len(t.u1) THEN [t EXCEPT !.pc = "mrg_118"]
    ELSE IF IsPMerge(t.fn) THEN Done(t)
    ELSE MsReturn([t EXCEPT !.i = 0, !.j = 0, !.s = 0, !.u1 = <<>>])

\* `std::copy(u.begin(), u.end(), v.begin() + lo)`, element t.s next; after
\* the last one merge returns: pmerge_sort_helper returns with it,
\* merge_sort_helper returns to its caller
MergeCopy(t) ==
    IF t.s < Len(t.u1) THEN [t EXCEPT !.pc = "mrg_118"]
    ELSE IF IsPMerge(t.fn) THEN Done(t)
    ELSE MsReturn([t EXCEPT !.i = 0, !.j = 0, !.s = 0, !.u1 = <<>>])

\* `while (i1 < mid || i2 < hi)`: t.i is i1, t.j is i2, t.u1 is u
MergeLoop(t) ==
    LET mid == Mid(t.lo, t.hi) IN
    IF t.i < mid \/ t.j < t.hi
    THEN IF t.i = mid THEN [t EXCEPT !.pc = "mrg_take2"]
         ELSE IF t.j = t.hi THEN [t EXCEPT !.pc = "mrg_take1"]
         ELSE Call(t, t.i, t.j, "mrg_108")
    ELSE MergeCopy([t EXCEPT !.s = 0])

\* merge(v, cmp, lo, hi)
MergeBegin(t, lo, hi) ==
    MergeLoop([t EXCEPT !.lo = lo, !.hi = hi, !.i = lo, !.j = Mid(lo, hi),
                        !.u1 = <<>>])

\* merge_sort_helper(v, cmp, lo, hi) is called
MsEnter(t, lo, hi) ==
    IF hi - lo <= 1 THEN MsReturn(t)
    ELSE MsEnter([t EXCEPT !.stk = Append(t.stk, Frame(lo, hi, 0, 1))],
                 lo, Mid(lo, hi))

\* a call of merge_sort_helper (or merge) returns to the frame on top
MsReturn(t) ==
    IF t.stk = <<>> THEN Done(t)
    ELSE LET f == Last(t.stk) IN
         IF f.st = 1
         THEN MsEnter([t EXCEPT !.stk = SetTop(t.stk, Frame(f.lo, f.hi, 0, 2))],
                      Mid(f.lo, f.hi), f.hi)
         ELSE IF f.st = 2
         THEN MergeBegin([t EXCEPT !.stk = SetTop(t.stk, Frame(f.lo, f.hi, 0, 3))],
                         f.lo, f.hi)
         ELSE MsReturn([t EXCEPT !.stk = Front(t.stk)])

\* a pmerge_sort_helper without the return of lines 143-144
PMergeStartNoReturn(t) == [t EXCEPT !.pc = "spawn_head"]

\* a pmerge_sort_helper that merges a range of two elements itself
PMergeStartCutoff(t) ==
    IF t.hi - t.lo <= 1 THEN Done(t)
    ELSE IF t.hi - t.lo = 2 THEN MergeBegin(t, t.lo, t.hi)
    ELSE [t EXCEPT !.pc = "spawn_head"]

\* pmerge_sort_helper(v, cmp, lo, hi) starts
PMergeStart(t) ==
    IF t.hi - t.lo <= 1 THEN Done(t)
    ELSE [t EXCEPT !.pc = "spawn_head"]

-----------------------------------------------------------------------------
(* partition, quick_sort_helper, pquick_sort_helper, rpquick_sort_helper *)

RECURSIVE QsEnter(_, _, _)
RECURSIVE QsReturn(_)

\* partition returns u1.size(): quick_sort_helper recurses on [lo, lo + p),
\* the parallel helpers spawn their two threads; a thread that called
\* partition itself is done and keeps p in s and the value returned in i
PartEnd(t) ==
    LET p == Len(t.u1)
        r == [t EXCEPT !.i = 0, !.j = 0, !.s = 0, !.tmp = NoDatum,
                       !.u1 = <<>>, !.u2 = <<>>]
    IN  IF t.fn = "partition"
        THEN [r EXCEPT !.s = t.s, !.i = p, !.pc = "done"]
        ELSE IF t.fn = "quick_sort"
        THEN LET f == Last(t.stk) IN
             QsEnter([r EXCEPT !.stk = SetTop(t.stk, Frame(f.lo, f.hi, p, 1))],
                     f.lo, f.lo + p)
        ELSE [r EXCEPT !.s = p, !.pc = "spawn_head"]

\* a partition without the std::copy of line 177
PartCopy2Skip(t) == PartEnd(t)

\* `std::copy(u2.begin(), u2.end(), v.begin() + lo + u1.size() + 1)`
PartCopy2(t) ==
    IF t.j < Len(t.u2) THEN [t EXCEPT !.pc = "par_177"]
    ELSE PartEnd(t)

\* `std::copy(u1.begin(), u1.end(), v.begin() + lo)`, then line 176
PartCopy1(t) ==
    IF t.j < Len(t.u1) THEN [t EXCEPT !.pc = "par_175"]
    ELSE [t EXCEPT !.pc = "par_176"]

\* `for (i = lo; i < hi; i++) { if (i == p) continue; if (cmp(v[i], vp))`:
\* t.s is p, t.tmp is vp
PartLoop(t) ==
    LET i == IF t.i = t.s THEN t.i + 1 ELSE t.i IN
    IF i < t.hi THEN Call([t EXCEPT !.i = i], i, Local, "par_170")
    ELSE PartCopy1([t EXCEPT !.i = i, !.j = 0])

\* a partition around the first element of the range
PartBeginFirst(t, lo, hi, p) ==
    [t EXCEPT !.lo = lo, !.hi = hi, !.s = lo, !.pc = "par_165"]

\* partition(v, cmp, lo, hi, p) is called
PartBegin(t, lo, hi, p) ==
    [t EXCEPT !.lo = lo, !.hi = hi, !.s = p, !.pc = "par_165"]

\* quick_sort_helper(v, cmp, lo, hi) is called
QsEnter(t, lo, hi) ==
    IF hi - lo <= 1 THEN QsReturn(t)
    ELSE PartBegin([t EXCEPT !.stk = Append(t.stk, Frame(lo, hi, 0, 0))],
                   lo, hi, Mid(lo, hi))

\* a call of quick_sort_helper returns to the frame on top
QsReturn(t) ==
    IF t.stk = <<>> THEN Done(t)
    ELSE LET f == Last(t.stk) IN
         IF f.st = 1
         THEN QsEnter([t EXCEPT !.stk = SetTop(t.stk, Frame(f.lo, f.hi, f.p, 2))],
                      f.lo + f.p + 1, f.hi)
         ELSE QsReturn([t EXCEPT !.stk = Front(t.stk)])

\* pquick_sort_helper(v, cmp, lo, hi) starts
PQuickStart(t) ==
    IF t.hi - t.lo <= 1 THEN Done(t)
    ELSE PartBegin(t, t.lo, t.hi, Mid(t.lo, t.hi))

\* the pivots `rand() % (hi - lo) + lo` can give
RandPivots(lo, hi) == {(r % (hi - lo)) + lo : r \in 0 .. MaxRand}

\* rpquick_sort_helper(v, cmp, lo, hi) starts: the pivot is drawn in a step
RPQuickStart(t) ==
    IF t.hi - t.lo <= 1 THEN Done(t)
    ELSE [t EXCEPT !.pc = "rpq_226"]

-----------------------------------------------------------------------------
(* std_sort: std::sort(v.begin(), v.end(), cmp).  The library's code is not  *)
(* part of the repository: what is modelled is libstdc++'s std::sort.  For a *)
(* range of at most StdThreshold elements it is __insertion_sort.  For a     *)
(* longer range it partitions with __unguarded_partition, whose scans stop   *)
(* only where comp returns false: std::sort requires a strict weak ordering, *)
(* sort_cmp is <=, and with a value equal to the pivot's a scan leaves the   *)
(* vector (StdUndefined below).                                              *)

\* libstdc++'s _S_threshold
StdThreshold == 16

\* `for (i = first + 1; i != last; ++i) if (comp(i, first))`
StdOuter(t, n) ==
    IF t.i < n THEN Call(t, t.i, 0, "std_first")
    ELSE Done(t)

\* std::move_backward(first, i, i + 1): t.j runs from i down to 1
StdMoveBack(t) ==
    IF t.j > 0 THEN [t EXCEPT !.pc = "std_mb"]
    ELSE [t EXCEPT !.pc = "std_put0"]

\* `if (first == last) return;`
StdStart(t, n) ==
    IF n = 0 THEN Done(t)
    ELSE IF n <= StdThreshold THEN StdOuter([t EXCEPT !.i = 1], n)
    ELSE [t EXCEPT !.pc = "std_introsort"]

-----------------------------------------------------------------------------
(* What a thread does next *)

\* the thread function is entered and runs to its first statement on v
Start(t) ==
    LET n == Size(t) IN
    CASE t.fn = "selection_sort" -> SelOuter(t, n)
      [] t.fn = "insertion_sort" -> InsOuter([t EXCEPT !.i = 1], n)
      [] t.fn = "bubble_sort"    -> BubStart(t, n)
      [] t.fn = "merge_sort"     -> MsEnter(t, 0, n)
      [] t.fn = "quick_sort"     -> QsEnter(t, 0, n)
      [] t.fn = "std_sort"       -> StdStart(t, n)
      [] IsPMerge(t.fn)          -> PMergeStart(t)
      [] IsPQuick(t.fn)          -> PQuickStart(t)
      [] IsRPQuick(t.fn)         -> RPQuickStart(t)

\* cmp has returned res to the call site t.ret
Resume(t0, res) ==
    LET t == [t0 EXCEPT !.cx = 0, !.cy = 0, !.ret = ""]
        n == Size(t0)
    IN
    CASE t0.ret = "sel_43" ->
           SelInner([t EXCEPT !.s = IF res THEN t.j ELSE t.s, !.j = t.j + 1], n)
      [] t0.ret = "ins_57" ->
           IF res THEN InsFind([t EXCEPT !.j = 0], n)
           ELSE InsOuter([t EXCEPT !.i = t.i + 1], n)
      [] t0.ret = "ins_59" ->
           IF res THEN InsFind([t EXCEPT !.j = t.j + 1], n) ELSE InsRot(t, n)
      [] t0.ret = "bub_80" ->
           IF res THEN [t EXCEPT !.pc = "bub_81"]
           ELSE BubInner([t EXCEPT !.j = t.j + 1], n)
      [] t0.ret = "mrg_108" ->
           [t EXCEPT !.pc = IF res THEN "mrg_take1" ELSE "mrg_take2"]
      [] t0.ret = "par_170" ->
           [t EXCEPT !.pc = IF res THEN "par_171" ELSE "par_173"]
      [] t0.ret = "std_first" ->
           [t EXCEPT !.pc = IF res THEN "std_val_a" ELSE "std_val_b"]
      [] t0.ret = "std_unguarded" ->
           [t EXCEPT !.pc = IF res THEN "std_shift" ELSE "std_put"]

NoWrite == <<>>

Effect(t, w, r) == [t |-> t, w |-> w, r |-> r]

(* One statement that reads or writes v: the thread after it (run on to its *)
(* next such statement), the element it writes, <<index, element>>, and the *)
(* indices of the elements it reads.                                        *)

\* selection_sort lines 46-48
SelectionStmt(t) ==
    CASE t.pc = "sel_46" ->
           Effect([t EXCEPT !.tmp = V(t, t.i), !.pc = "sel_47"], NoWrite, {t.i})
      [] t.pc = "sel_47" ->
           Effect([t EXCEPT !.pc = "sel_48"], <<t.i, V(t, t.s)>>, {t.s})
      [] t.pc = "sel_48" ->
           Effect(SelOuter([t EXCEPT !.i = t.i + 1, !.tmp = NoDatum], Size(t)),
                  <<t.s, t.tmp>>, {})

\* insertion_sort lines 63-66
InsertionStmt(t) ==
    CASE t.pc = "ins_63" ->
           Effect([t EXCEPT !.tmp = V(t, t.j), !.pc = "ins_64"], NoWrite, {t.j})
      [] t.pc = "ins_64" ->
           Effect([t EXCEPT !.pc = "ins_65"], <<t.j, V(t, t.i)>>, {t.i})
      [] t.pc = "ins_65" ->
           Effect(InsRot([t EXCEPT !.j = t.j + 1], Size(t)), <<t.i, t.tmp>>, {})

\* bubble_sort lines 81-83
BubbleStmt(t) ==
    CASE t.pc = "bub_81" ->
           Effect([t EXCEPT !.tmp = V(t, t.j), !.pc = "bub_82"], NoWrite, {t.j})
      [] t.pc = "bub_82" ->
           Effect([t EXCEPT !.pc = "bub_83"], <<t.j, V(t, t.j + 1)>>, {t.j + 1})
      [] t.pc = "bub_83" ->
           Effect(BubInner([t EXCEPT !.j = t.j + 1, !.tmp = NoDatum], Size(t)),
                  <<t.j + 1, t.tmp>>, {})

\* merge: `u.push_back(v[i1]); i1++`, `u.push_back(v[i2]); i2++`, and one
\* element of the std::copy of line 118
MergeStmt(t) ==
    CASE t.pc = "mrg_take1" ->
           Effect(MergeLoop([t EXCEPT !.u1 = Append(t.u1, V(t, t.i)),
                                      !.i = t.i + 1]), NoWrite, {t.i})
      [] t.pc = "mrg_take2" ->
           Effect(MergeLoop([t EXCEPT !.u1 = Append(t.u1, V(t, t.j)),
                                      !.j = t.j + 1]), NoWrite, {t.j})
      [] t.pc = "mrg_118" ->
           Effect(MergeCopy([t EXCEPT !.s = t.s + 1]),
                  <<t.lo + t.s, At(t.u1, t.s)>>, {})

\* partition: line 165, the push_back of line 171 or 173, and one element
\* of the write-back of lines 175-177
PartitionStmt(t) ==
    CASE t.pc = "par_165" ->
           Effect(PartLoop([t EXCEPT !.tmp = V(t, t.s), !.i = t.lo,
                                     !.u1 = <<>>, !.u2 = <<>>]), NoWrite, {t.s})
      [] t.pc = "par_171" ->
           Effect(PartLoop([t EXCEPT !.u1 = Append(t.u1, V(t, t.i)),
                                     !.i = t.i + 1]), NoWrite, {t.i})
      [] t.pc = "par_173" ->
           Effect(PartLoop([t EXCEPT !.u2 = Append(t.u2, V(t, t.i)),
                                     !.i = t.i + 1]), NoWrite, {t.i})
      [] t.pc = "par_175" ->
           Effect(PartCopy1([t EXCEPT !.j = t.j + 1]),
                  <<t.lo + t.j, At(t.u1, t.j)>>, {})
      [] t.pc = "par_176" ->
           Effect(PartCopy2([t EXCEPT !.j = 0]), <<t.lo + Len(t.u1), t.tmp>>, {})
      [] t.pc = "par_177" ->
           Effect(PartCopy2([t EXCEPT !.j = t.j + 1]),
                  <<t.lo + Len(t.u1) + 1 + t.j, At(t.u2, t.j)>>, {})

\* std::sort's insertion sort: `val = *i; move_backward(first, i, i + 1);
\* *first = val` when comp(i, first), else the unguarded linear insert
\* `val = *last; while (comp(val, next)) { *last = *next; last = next;
\* --next; } *last = val`: t.tmp is val, t.s is last, t.j is next
StdSortStmt(t) ==
    CASE t.pc = "std_val_a" ->
           Effect(StdMoveBack([t EXCEPT !.tmp = V(t, t.i), !.j = t.i]), NoWrite, {t.i})
      [] t.pc = "std_mb" ->
           Effect(StdMoveBack([t EXCEPT !.j = t.j - 1]), <<t.j, V(t, t.j - 1)>>, {t.j - 1})
      [] t.pc = "std_put0" ->
           Effect(StdOuter([t EXCEPT !.i = t.i + 1, !.j = 0, !.tmp = NoDatum],
                           Size(t)),
                  <<0, t.tmp>>, {})
      [] t.pc = "std_val_b" ->
           Effect(Call([t EXCEPT !.tmp = V(t, t.i), !.s = t.i, !.j = t.i - 1],
                       Local, t.i - 1, "std_unguarded"), NoWrite, {t.i})
      [] t.pc = "std_shift" ->
           Effect(Call([t EXCEPT !.s = t.j, !.j = t.j - 1],
                       Local, t.j - 1, "std_unguarded"), <<t.s, V(t, t.j)>>, {t.j})
      [] t.pc = "std_put" ->
           Effect(StdOuter([t EXCEPT !.i = t.i + 1, !.j = 0, !.s = 0,
                                     !.tmp = NoDatum], Size(t)),
                  <<t.s, t.tmp>>, {})

SelectionPcs == {"sel_46", "sel_47", "sel_48"}

InsertionPcs == {"ins_63", "ins_64", "ins_65"}

BubblePcs == {"bub_81", "bub_82", "bub_83"}

MergePcs == {"mrg_take1", "mrg_take2", "mrg_118"}

PartitionPcs == {"par_165", "par_171", "par_173", "par_175", "par_176", "par_177"}

StdSortPcs == {"std_val_a", "std_mb", "std_put0", "std_val_b", "std_shift", "std_put"}

\* the statement the thread is at
Statement(t) ==
    CASE t.pc \in SelectionPcs -> SelectionStmt(t)
      [] t.pc \in InsertionPcs -> InsertionStmt(t)
      [] t.pc \in BubblePcs    -> BubbleStmt(t)
      [] t.pc \in MergePcs     -> MergeStmt(t)
      [] t.pc \in PartitionPcs -> PartitionStmt(t)
      [] t.pc \in StdSortPcs   -> StdSortStmt(t)

-----------------------------------------------------------------------------
(* sort_draw_data: the loop over sort_data[i][j], one element a step *)

\* window_m.lock() has returned: the first element of the loops of
\* lines 760-761, or none
AfterLock(r) ==
    IF Len(sort_threads) > 0 /\ sort_n > 0
    THEN [r EXCEPT !.pc = "draw", !.di = 0, !.dj = 0]
    ELSE [r EXCEPT !.pc = "draw_unlock", !.di = 0, !.dj = 0]

\* the loops move on from element (di, dj)
AfterDraw(r) ==
    IF r.dj + 1 < sort_n THEN [r EXCEPT !.dj = r.dj + 1]
    ELSE IF r.di + 1 < Len(sort_threads) THEN [r EXCEPT !.di = r.di + 1, !.dj = 0]
    ELSE [r EXCEPT !.pc = "draw_unlock", !.di = 0, !.dj = 0]

\* a publish that clears the timer of the element it draws red
DrawDatumReset(e, end) ==
    IF end \/ e.timer = 0 THEN e ELSE [e EXCEPT !.timer = 0]

\* lines 765-770: `if (end || !timer)` white, else red and `timer--`
DrawDatum(e, end) ==
    IF end \/ e.timer = 0 THEN e ELSE [e EXCEPT !.timer = e.timer - 1]

\* sort_data with element j of dataset d replaced
PutDatum(d, j, e) == Put(sort_data, d, Put(At(sort_data, d), j, e))

\* `timer--` of some other thread's sort_draw_data is under way on element
\* (d, j): it has read the timer and will write that value less one
Torn(self, d, j) ==
    /\ At(At(sort_data, d), j).timer > 0
    /\ \E p \in DOMAIN thr \ {self} :
          thr[p].pc = "draw" /\ thr[p].di = d /\ thr[p].dj = j

\* what a store of e to element (d, j) can leave there.  The store is not
\* ordered with a concurrent `timer--` (no lock is held): it lands after it,
\* before it, or between its read and its write, and then the timer written
\* is the old one less one (the old one here, the decrement follows)
StoreOutcomes(self, d, j, e) ==
    {e} \cup (IF Torn(self, d, j)
              THEN {[e EXCEPT !.timer = At(At(sort_data, d), j).timer]}
              ELSE {})

\* the thread stores e to v[j]
Store(self, d, j, e) ==
    \E ne \in StoreOutcomes(self, d, j, e) : sort_data' = PutDatum(d, j, ne)

-----------------------------------------------------------------------------
(* Steps of a sort thread *)

Running(id, pcs) == id \in DOMAIN thr /\ thr[id].pc \in pcs

SetThread(id, t) == thr' = [thr EXCEPT ![id] = t]

Shell == <<mode, selected, sort_n, sort_queue, sort_threads, main, window_open,
           base, spawned>>

\* a statement of an algorithm that reads or writes v
Step(id, pcs) ==
    /\ Running(id, pcs)
    /\ LET eff == Statement(thr[id]) IN
         /\ SetThread(id, eff.t)
         /\ IF eff.w = NoWrite THEN UNCHANGED sort_data
            ELSE Store(id, thr[id].d, eff.w[1], eff.w[2])
    /\ UNCHANGED <<Shell, window_m>>

SelectionStep(id) == Step(id, SelectionPcs)

InsertionStep(id) == Step(id, InsertionPcs)

BubbleStep(id) == Step(id, BubblePcs)

MergeStep(id) == Step(id, MergePcs)

PartitionStep(id) == Step(id, PartitionPcs)

StdSortStep(id) == Step(id, StdSortPcs)

\* rpquick_sort_helper line 226: the pivot index rand() gives
RandPivot(id) ==
    /\ Running(id, {"rpq_226"})
    /\ \E p \in RandPivots(thr[id].lo, thr[id].hi) :
          SetThread(id, PartBegin(thr[id], thr[id].lo, thr[id].hi, p))
    /\ UNCHANGED <<Shell, window_m, sort_data>>

\* sort_cmp line 85: x.timer = 5
CmpSetX(id) ==
    /\ Running(id, {"cmp_x"})
    /\ LET t == thr[id] IN
         IF t.cx = Local
         THEN /\ SetThread(id, [t EXCEPT !.tmp.timer = HighlightTimer, !.pc = "cmp_y"])
              /\ UNCHANGED sort_data
         ELSE /\ SetThread(id, [t EXCEPT !.pc = "cmp_y"])
              /\ Store(id, t.d, t.cx, [V(t, t.cx) EXCEPT !.timer = HighlightTimer])
    /\ UNCHANGED <<Shell, window_m>>

\* sort_cmp line 86: y.timer = 5; line 87 calls sort_draw_data()
CmpSetY(id) ==
    /\ Running(id, {"cmp_y"})
    /\ LET t == thr[id] IN
         IF t.cy = Local
         THEN /\ SetThread(id, [t EXCEPT !.tmp.timer = HighlightTimer, !.pc = "draw_lock"])
              /\ UNCHANGED sort_data
         ELSE /\ SetThread(id, [t EXCEPT !.pc = "draw_lock"])
              /\ Store(id, t.d, t.cy, [V(t, t.cy) EXCEPT !.timer = HighlightTimer])
    /\ UNCHANGED <<Shell, window_m>>

\* a lock that excludes nobody
CanLockAlways(self) == TRUE

\* window_m.lock() can return to `self`
CanLock(self) == window_m = Free

\* sort_draw_data line 748: window_m.lock()
DrawLock(id) ==
    /\ Running(id, {"draw_lock"})
    /\ CanLock(id)
    /\ window_m' = id
    /\ SetThread(id, AfterLock(thr[id]))
    /\ UNCHANGED <<Shell, sort_data>>

\* sort_draw_data(false) lines 762-771 for one element
DrawElement(id) ==
    /\ Running(id, {"draw"})
    /\ LET t == thr[id] IN
         /\ sort_data' = PutDatum(t.di, t.dj,
                                  DrawDatum(At(At(sort_data, t.di), t.dj), FALSE))
         /\ SetThread(id, AfterDraw(t))
    /\ UNCHANGED <<Shell, window_m>>

\* a sort_draw_data that returns without window_m.unlock()
DrawNoUnlock(id) ==
    /\ Running(id, {"draw_unlock"})
    /\ SetThread(id, [thr[id] EXCEPT !.pc = "cmp_ret"])
    /\ UNCHANGED <<Shell, window_m, sort_data>>

\* sort_draw_data line 779: window_m.unlock()
DrawUnlock(id) ==
    /\ Running(id, {"draw_unlock"})
    /\ window_m' = Free
    /\ SetThread(id, [thr[id] EXCEPT !.pc = "cmp_ret"])
    /\ UNCHANGED <<Shell, sort_data>>

\* the element cmp's argument refers to
Arg(t, x) == IF x = Local THEN t.tmp ELSE V(t, x)

\* a comparator that returns x.value < y.value
CmpReturnStrict(id) ==
    /\ Running(id, {"cmp_ret"})
    /\ LET t == thr[id] IN
         SetThread(id, Resume(t, Arg(t, t.cx).value < Arg(t, t.cy).value))
    /\ UNCHANGED <<Shell, window_m, sort_data>>

\* sort_cmp line 88: return x.value <= y.value
CmpReturn(id) ==
    /\ Running(id, {"cmp_ret"})
    /\ LET t == thr[id] IN
         SetThread(id, Resume(t, Arg(t, t.cx).value <= Arg(t, t.cy).value))
    /\ UNCHANGED <<Shell, window_m, sort_data>>

\* the helper the parallel sort runs in its two threads
HelperOf(fn) ==
    IF IsPMerge(fn) THEN "pmerge_sort_helper"
    ELSE IF IsPQuick(fn) THEN "pquick_sort_helper"
    ELSE "rpquick_sort_helper"

\* a tail that keeps the pivot
ChildRangeWithPivot(t, which) ==
    IF IsPMerge(t.fn)
    THEN (IF which = 0 THEN <<t.lo, Mid(t.lo, t.hi)>> ELSE <<Mid(t.lo, t.hi), t.hi>>)
    ELSE (IF which = 0 THEN <<t.lo, t.lo + t.s>> ELSE <<t.lo + t.s, t.hi>>)

\* the range of `head` (which = 0) and of `tail` (which = 1)
ChildRange(t, which) ==
    IF IsPMerge(t.fn)
    THEN (IF which = 0 THEN <<t.lo, Mid(t.lo, t.hi)>> ELSE <<Mid(t.lo, t.hi), t.hi>>)
    ELSE (IF which = 0 THEN <<t.lo, t.lo + t.s>> ELSE <<t.lo + t.s + 1, t.hi>>)

\* std::thread head(...) / std::thread tail(...)
Spawn(id, which, next) ==
    LET t == thr[id]
        r == ChildRange(t, which)
        c == Append(id, which)
    IN  thr' = [x \in DOMAIN thr \cup {c} |->
                  IF x = c THEN Start(Thread(HelperOf(t.fn), t.d, r[1], r[2]))
                  ELSE IF x = id THEN [t EXCEPT !.pc = next, !.forks = t.forks + 1]
                  ELSE thr[x]]

SpawnHead(id) ==
    /\ Running(id, {"spawn_head"})
    /\ Spawn(id, 0, "spawn_tail")
    /\ UNCHANGED <<Shell, window_m, sort_data>>

SpawnTail(id) ==
    /\ Running(id, {"spawn_tail"})
    /\ Spawn(id, 1, "join_head")
    /\ UNCHANGED <<Shell, window_m, sort_data>>

\* head.join()
JoinHead(id) ==
    /\ Running(id, {"join_head"})
    /\ thr[Append(id, 0)].pc = "done"
    /\ thr' = [x \in DOMAIN thr \ {Append(id, 0)} |->
                 IF x = id
                 THEN [thr[id] EXCEPT !.pc = "join_tail",
                                      !.forks = @ + thr[Append(id, 0)].forks]
                 ELSE thr[x]]
    /\ UNCHANGED <<Shell, window_m, sort_data>>

\* the helper goes on after tail.join(): merge, or return
AfterJoin(t) ==
    IF IsPMerge(t.fn) THEN MergeBegin(t, t.lo, t.hi) ELSE Done(t)

\* a helper that goes on without tail.join()
JoinTailNoWait(id) ==
    /\ Running(id, {"join_tail"})
    /\ SetThread(id, AfterJoin(thr[id]))
    /\ UNCHANGED <<Shell, window_m, sort_data>>

\* tail.join()
JoinTail(id) ==
    /\ Running(id, {"join_tail"})
    /\ thr[Append(id, 1)].pc = "done"
    /\ thr' = [x \in DOMAIN thr \ {Append(id, 1)} |->
                 IF x = id
                 THEN AfterJoin([thr[id] EXCEPT
                                    !.forks = @ + thr[Append(id, 1)].forks])
                 ELSE thr[x]]
    /\ UNCHANGED <<Shell, window_m, sort_data>>

\* values no element of an input holds
Foreign == {0, MaxVal + 1}

\* what a vector can hold when a std::sort that left it returns: it read,
\* swapped and (through sort_cmp) wrote elements before v.begin() and from
\* v.end() on
UndefinedResults(v) ==
    {v} \cup {Put(v, k, SortingDatum(g)) : k \in {0, Len(v) - 1}, g \in Foreign}

\* std::sort on more than StdThreshold elements that are not distinct:
\* undefined behaviour.  The process is killed (the thread never returns),
\* or the call returns and leaves one of UndefinedResults.
StdUndefined(id) ==
    /\ Running(id, {"std_introsort"})
    /\ LET t == thr[id]
           v == At(sort_data, t.d)
       IN  /\ ~Distinct(Values(v))
           /\ \/ /\ SetThread(id, [t EXCEPT !.pc = "fault"])
                 /\ UNCHANGED sort_data
              \/ /\ SetThread(id, Done(t))
                 /\ \E w \in UndefinedResults(v) :
                       sort_data' = Put(sort_data, t.d, w)
    /\ UNCHANGED <<Shell, window_m>>

\* a step of one of the run's sort threads
Threads ==
    \/ \E id \in DOMAIN thr : SelectionStep(id)
    \/ \E id \in DOMAIN thr : InsertionStep(id)
    \/ \E id \in DOMAIN thr : BubbleStep(id)
    \/ \E id \in DOMAIN thr : MergeStep(id)
    \/ \E id \in DOMAIN thr : PartitionStep(id)
    \/ \E id \in DOMAIN thr : StdSortStep(id)
    \/ \E id \in DOMAIN thr : RandPivot(id)
    \/ \E id \in DOMAIN thr : CmpSetX(id)
    \/ \E id \in DOMAIN thr : CmpSetY(id)
    \/ \E id \in DOMAIN thr : DrawLock(id)
    \/ \E id \in DOMAIN thr : DrawElement(id)
    \/ \E id \in DOMAIN thr : DrawUnlock(id)
    \/ \E id \in DOMAIN thr : CmpReturn(id)
    \/ \E id \in DOMAIN thr : SpawnHead(id)
    \/ \E id \in DOMAIN thr : SpawnTail(id)
    \/ \E id \in DOMAIN thr : JoinHead(id)
    \/ \E id \in DOMAIN thr : JoinTail(id)

-----------------------------------------------------------------------------
(* sort_launch, run by the main thread from draw() *)

Session == <<selected, sort_n, sort_queue, window_open>>

\* every thread is given the first dataset
LaunchTaskSameData(i) == [fn |-> AlgoFn[At(sort_queue, i) + 1], d |-> 0]

\* every thread is given the first algorithm of the queue
LaunchTaskSameAlgo(i) == [fn |-> AlgoFn[At(sort_queue, 0) + 1], d |-> i]

\* thread i is given the dataset after its own
LaunchTaskNext(i) == [fn |-> AlgoFn[At(sort_queue, i) + 1], d |-> i + 1]

\* what the thread started for queue position i runs and on which dataset:
\* `sort_algos[sort_queue[i]].sort(sort_data[i], sort_cmp)`
LaunchTask(i) == [fn |-> AlgoFn[At(sort_queue, i) + 1], d |-> i]

\* the loop of lines 734-740 at position i, then the loop of lines 741-742
LaunchLoop(i) ==
    IF i < Len(sort_queue) THEN [main EXCEPT !.pc = "launch_735", !.i = i]
    ELSE IF Len(sort_queue) > 0 THEN [main EXCEPT !.pc = "launch_742", !.i = 0]
    ELSE [main EXCEPT !.pc = "draw_lock", !.i = 0]

\* the main loop calls draw(), and draw() calls sort_launch()
Draw ==
    /\ main.pc = "loop"
    /\ mode = "SORTING"
    /\ main' = LaunchLoop(0)
    /\ spawned' = <<>>
    /\ UNCHANGED <<mode, Session, sort_data, sort_threads, window_m, thr, base>>

\* lines 735-740: sort_threads[i] = std::thread(...)
LaunchSpawn ==
    /\ main.pc = "launch_735"
    /\ LET task == LaunchTask(main.i)
           id == <<main.i>>
       IN  /\ thr' = [x \in DOMAIN thr \cup {id} |->
                        IF x = id
                        THEN Start(Thread(task.fn, task.d, 0,
                                          Len(At(sort_data, task.d))))
                        ELSE thr[x]]
           /\ spawned' = Append(spawned, task)
    /\ sort_threads' = Put(sort_threads, main.i, "joinable")
    /\ main' = LaunchLoop(main.i + 1)
    /\ UNCHANGED <<mode, Session, sort_data, window_m, base>>

\* only the first thread is joined
JoinLoopFirstOnly(i) == [main EXCEPT !.pc = "draw_lock", !.i = 0]

\* the loop of lines 741-742 moves on from position i
JoinLoop(i) ==
    IF i < Len(sort_queue) THEN [main EXCEPT !.pc = "launch_742", !.i = i]
    ELSE [main EXCEPT !.pc = "draw_lock", !.i = 0]

\* line 742: sort_threads[i].join()
LaunchJoin ==
    /\ main.pc = "launch_742"
    /\ <<main.i>> \in DOMAIN thr
    /\ thr[<<main.i>>].pc = "done"
    /\ thr' = [x \in DOMAIN thr \ {<<main.i>>} |-> thr[x]]
    /\ sort_threads' = Put(sort_threads, main.i, "not_joinable")
    /\ main' = JoinLoop(main.i + 1)
    /\ UNCHANGED <<mode, Session, sort_data, window_m, base, spawned>>

\* line 743, sort_draw_data(true): window_m.lock()
EndLock ==
    /\ main.pc = "draw_lock"
    /\ CanLock(MainId)
    /\ window_m' = MainId
    /\ main' = AfterLock(main)
    /\ UNCHANGED <<mode, Session, sort_data, sort_threads, thr, base, spawned>>

\* the closing publish run as sort_draw_data(false)
EndDrawCounting ==
    /\ main.pc = "draw"
    /\ sort_data' = PutDatum(main.di, main.dj,
                             DrawDatum(At(At(sort_data, main.di), main.dj), FALSE))
    /\ main' = AfterDraw(main)
    /\ UNCHANGED <<mode, Session, sort_threads, window_m, thr, base, spawned>>

\* sort_draw_data(true) lines 762-771 for one element
EndDraw ==
    /\ main.pc = "draw"
    /\ sort_data' = PutDatum(main.di, main.dj,
                             DrawDatum(At(At(sort_data, main.di), main.dj), TRUE))
    /\ main' = AfterDraw(main)
    /\ UNCHANGED <<mode, Session, sort_threads, window_m, thr, base, spawned>>

\* sort_draw_data line 779, window_m.unlock(), and sort_launch line 744
EndUnlock ==
    /\ main.pc = "draw_unlock"
    /\ window_m' = Free
    /\ mode' = "SORTED"
    /\ main' = [main EXCEPT !.pc = "loop"]
    /\ UNCHANGED <<Session, sort_data, sort_threads, thr, base, spawned>>

Launch ==
    \/ Draw
    \/ LaunchSpawn
    \/ LaunchJoin
    \/ EndLock
    \/ EndDraw
    \/ EndUnlock

\* a run: sort_launch and the threads it starts
Run == Launch \/ Threads

-----------------------------------------------------------------------------
(* The event handlers.  The cursor of the configuration screen              *)
(* (config_field, config_entry), the Quantity string and the scroll          *)
(* positions are not state of the model: an event carries the field it acts  *)
(* on and the Quantity it leaves in sort_n.                                  *)

\* the constructor sets sort_n = 100
InitialN == 100

Quantities == 0 .. MaxN

RECURSIVE SelectedFrom(_)
\* the selected algorithms from index a on, in registration order
SelectedFrom(a) ==
    IF a >= NumAlgos THEN <<>>
    ELSE (IF selected[a] THEN <<a>> ELSE <<>>) \o SelectedFrom(a + 1)

NumSelected == Len(SelectedFrom(0))

\* copies taken of the base before it is shuffled
SetupDataUnshuffled(n, queue, perm) ==
    LET m == Len(sort_data)
        old(j) == IF j < m THEN At(sort_data, j) ELSE <<>>
        first == old(0) \o [k \in 1 .. n |-> SortingDatum(k)]
        shuffled == [k \in 1 .. Len(first) |-> first[perm[k]]]
        copy == [k \in 1 .. n |-> SortingDatum(first[k].value)]
    IN  [j \in 1 .. m + 1 + Len(queue) |->
           IF j = 1 THEN shuffled
           ELSE IF j - 1 <= Len(queue) THEN old(j - 1) \o copy
           ELSE old(j - 1)]

\* a sort_setup whose loop of line 720 stops at `j < sort_queue.size()`
SetupDataNoSpare(n, queue, perm) ==
    LET m == Len(sort_data)
        old(j) == IF j < m THEN At(sort_data, j) ELSE <<>>
        first == old(0) \o [k \in 1 .. n |-> SortingDatum(k)]
        shuffled == [k \in 1 .. Len(first) |-> first[perm[k]]]
        copy == [k \in 1 .. n |-> SortingDatum(shuffled[k].value)]
    IN  [j \in 1 .. m + Len(queue) |->
           IF j = 1 THEN shuffled
           ELSE IF j - 1 < Len(queue) THEN old(j - 1) \o copy
           ELSE old(j - 1)]

\* sort_setup lines 716-724: an empty vector is pushed, the base 1..n is
\* pushed onto sort_data[0], which is shuffled to the order perm; then for
\* each j from 1 to the length of the queue an empty vector is pushed and
\* the first n values of sort_data[0] are pushed onto sort_data[j]
SetupData(n, queue, perm) ==
    LET m == Len(sort_data)
        old(j) == IF j < m THEN At(sort_data, j) ELSE <<>>
        first == old(0) \o [k \in 1 .. n |-> SortingDatum(k)]
        shuffled == [k \in 1 .. Len(first) |-> first[perm[k]]]
        copy == [k \in 1 .. n |-> SortingDatum(shuffled[k].value)]
    IN  [j \in 1 .. m + 1 + Len(queue) |->
           IF j = 1 THEN shuffled
           ELSE IF j - 1 <= Len(queue) THEN old(j - 1) \o copy
           ELSE old(j - 1)]

\* a sort_setup without the return of lines 709-714
SortSetupNoReturn(n) ==
    LET queue == sort_queue \o SelectedFrom(0) IN
    /\ NumSelected * n <= MaxWork
    /\ sort_n' = n
    /\ sort_queue' = queue
    /\ sort_threads' = sort_threads \o [k \in 1 .. NumSelected |-> "not_joinable"]
    /\ \E perm \in Perms(1 .. (n + IF sort_data = <<>> THEN 0 ELSE Len(sort_data[1]))) :
          /\ sort_data' = SetupData(n, queue, perm)
          /\ base' = SubSeq(Values(sort_data'[1]), 1, n)
    /\ mode' = "SORTING"
    /\ UNCHANGED <<selected, window_m, thr, main, window_open, spawned>>

\* sort_setup(), with n the Quantity, followed by the caller's
\* `mode = Mode::SORTING` (which overwrites the SORTED of line 712)
SortSetup(n) ==
    LET queue == sort_queue \o SelectedFrom(0) IN
    /\ NumSelected * n <= MaxWork
    /\ sort_n' = n
    /\ sort_queue' = queue
    /\ sort_threads' = sort_threads \o [k \in 1 .. NumSelected |-> "not_joinable"]
    /\ IF queue = <<>>
       THEN UNCHANGED <<sort_data, base>>
       ELSE \E perm \in Perms(1 .. (n + IF sort_data = <<>> THEN 0 ELSE Len(sort_data[1]))) :
               /\ sort_data' = SetupData(n, queue, perm)
               /\ base' = SubSeq(Values(sort_data'[1]), 1, n)
    /\ mode' = "SORTING"
    /\ UNCHANGED <<selected, window_m, thr, main, window_open, spawned>>

\* main's loop is polling events: the window is open and no draw() is
\* under way
Idle == main.pc = "loop" /\ window_open

Quiet == <<sort_data, sort_queue, sort_threads, window_m, thr, main, window_open,
           base, spawned>>

\* handle_key in mode START, handle_mouse_pressed in mode START
HandleStart ==
    /\ Idle /\ mode = "START"
    /\ mode' = "HELP"
    /\ UNCHANGED <<selected, sort_n, Quiet>>

\* handle_key_help (Escape, Enter), handle_mouse_pressed in mode HELP
HandleHelp ==
    /\ Idle /\ mode = "HELP"
    /\ mode' = "CONFIG"
    /\ UNCHANGED <<selected, sort_n, Quiet>>

\* `sort_algos[a].selected = not sort_algos[a].selected`
Toggle(a) ==
    /\ selected[a] \/ NumSelected < MaxSel
    /\ selected' = [selected EXCEPT ![a] = ~selected[a]]

\* handle_key_config
HandleKeyConfig ==
    /\ Idle /\ mode = "CONFIG"
    /\ \/ \* H
          /\ mode' = "HELP"
          /\ UNCHANGED <<selected, sort_n, Quiet>>
       \/ \* Escape
          /\ mode' = "START"
          /\ UNCHANGED <<selected, sort_n, Quiet>>
       \/ \* a digit, Backspace, Delete and update_n on leaving the field
          /\ \E n \in Quantities : sort_n' = n
          /\ UNCHANGED <<mode, selected, Quiet>>
       \/ \* Enter on an algorithm
          /\ \E a \in Algos : Toggle(a)
          /\ UNCHANGED <<mode, sort_n, Quiet>>
       \/ \* Enter on Continue
          /\ sort_n \in Quantities
          /\ SortSetup(sort_n)

\* handle_mouse_pressed in mode CONFIG: update_n(), then the box clicked
HandleMouseConfig ==
    /\ Idle /\ mode = "CONFIG"
    /\ \E n \in Quantities :
         \/ \* an algorithm
            /\ sort_n' = n
            /\ \E a \in Algos : Toggle(a)
            /\ UNCHANGED <<mode, Quiet>>
         \/ \* Continue
            SortSetup(n)

\* a teardown without the sort_queue.clear() of line 459
TeardownKeepQueue ==
    /\ IF Len(sort_data) > 0
       THEN sort_data' = <<>> /\ sort_threads' = <<>>
       ELSE UNCHANGED <<sort_data, sort_threads>>
    /\ mode' = "CONFIG"
    /\ UNCHANGED <<selected, sort_n, sort_queue, window_m, thr, main,
                   window_open, base, spawned>>

\* a teardown that clears the selection as well
TeardownDeselect ==
    /\ IF Len(sort_data) > 0
       THEN sort_data' = <<>> /\ sort_queue' = <<>> /\ sort_threads' = <<>>
       ELSE UNCHANGED <<sort_data, sort_queue, sort_threads>>
    /\ mode' = "CONFIG"
    /\ selected' = [a \in Algos |-> FALSE]
    /\ UNCHANGED <<sort_n, window_m, thr, main, window_open, base, spawned>>

\* a teardown without the sort_threads.clear() of line 460
TeardownKeepThreads ==
    /\ IF Len(sort_data) > 0
       THEN sort_data' = <<>> /\ sort_queue' = <<>>
       ELSE UNCHANGED <<sort_data, sort_queue>>
    /\ mode' = "CONFIG"
    /\ UNCHANGED <<selected, sort_n, sort_threads, window_m, thr, main,
                   window_open, base, spawned>>

\* handle_key_sorted, Escape, Enter or Backspace
Teardown ==
    /\ IF Len(sort_data) > 0
       THEN sort_data' = <<>> /\ sort_queue' = <<>> /\ sort_threads' = <<>>
       ELSE UNCHANGED <<sort_data, sort_queue, sort_threads>>
    /\ mode' = "CONFIG"
    /\ UNCHANGED <<selected, sort_n, window_m, thr, main, window_open, base,
                   spawned>>

\* an R that copies the values of sort_data[0]
RestartFromFirst ==
    /\ sort_data' =
         [d \in 1 .. Len(sort_data) |->
            IF d <= Len(sort_queue)
            THEN [j \in 1 .. Len(sort_data[d]) |->
                    IF j <= sort_n
                    THEN [sort_data[d][j] EXCEPT !.value = sort_data[1][j].value]
                    ELSE sort_data[d][j]]
            ELSE sort_data[d]]
    /\ base' = IF sort_queue # <<>> THEN SubSeq(Values(sort_data[1]), 1, sort_n)
               ELSE base
    /\ mode' = "SORTING"
    /\ UNCHANGED <<selected, sort_n, sort_queue, sort_threads, window_m, thr,
                   main, window_open, spawned>>

\* handle_key_sorted, R
Restart ==
    /\ LET k == Len(sort_queue) IN
         /\ sort_data' =
              [d \in 1 .. Len(sort_data) |->
                 IF d <= k
                 THEN [j \in 1 .. Len(sort_data[d]) |->
                         IF j <= sort_n
                         THEN [sort_data[d][j] EXCEPT
                                  !.value = sort_data[k + 1][j].value]
                         ELSE sort_data[d][j]]
                 ELSE sort_data[d]]
         /\ base' = IF k > 0 THEN SubSeq(Values(sort_data[k + 1]), 1, sort_n)
                    ELSE base
    /\ mode' = "SORTING"
    /\ UNCHANGED <<selected, sort_n, sort_queue, sort_threads, window_m, thr,
                   main, window_open, spawned>>

\* handle_key_sorted
HandleKeySorted ==
    /\ Idle /\ mode = "SORTED"
    /\ \/ Teardown
       \/ Len(sort_queue) * sort_n <= MaxRestartWork /\ Restart

\* handle_key_sorted, R followed for a session of any size
HandleKeySortedAll ==
    /\ Idle /\ mode = "SORTED"
    /\ Teardown \/ Restart

\* an event delivered in mode SORTING before draw() is called: handle_key
\* breaks, the mouse handlers have no branch for the mode
HandleSorting ==
    /\ Idle /\ mode = "SORTING"
    /\ UNCHANGED vars

\* handle, sf::Event::Closed: window.close(); main's loop ends after the
\* draw() of the current round
HandleClosed ==
    /\ Idle
    /\ window_open' = FALSE
    /\ UNCHANGED <<mode, selected, sort_n, sort_data, sort_queue, sort_threads,
                   window_m, thr, main, base, spawned>>

Handle ==
    \/ HandleStart
    \/ HandleHelp
    \/ HandleKeyConfig
    \/ HandleMouseConfig
    \/ HandleKeySorted
    \/ HandleSorting
    \/ HandleClosed

-----------------------------------------------------------------------------
(* The program *)

\* the state after the constructor, the add_sort calls and launch()
Init ==
    /\ mode = "START"
    /\ selected = [a \in Algos |-> FALSE]
    /\ sort_n = InitialN
    /\ sort_data = <<>>
    /\ sort_queue = <<>>
    /\ sort_threads = <<>>
    /\ window_m = Free
    /\ thr = <<>>
    /\ main = [pc |-> "loop", i |-> 0, di |-> 0, dj |-> 0]
    /\ window_open = TRUE
    /\ base = <<>>
    /\ spawned = <<>>

Next == Handle \/ Run

Spec == Init /\ [][Next]_vars

\* the program with every restart followed
RestartNext ==
    \/ HandleStart
    \/ HandleHelp
    \/ HandleKeyConfig
    \/ HandleMouseConfig
    \/ HandleKeySortedAll
    \/ HandleSorting
    \/ HandleClosed
    \/ Run

RestartSpec == Init /\ [][RestartNext]_vars

\* the scheduler runs a thread that can take a step: a run that can go on
\* does go on
FairSpec == Spec /\ WF_vars(Run)

-----------------------------------------------------------------------------
(* One algorithm on an arbitrary vector: the state in which sort_launch is   *)
(* entered with the vector as the only queued algorithm's dataset.  The keys *)
(* may repeat: the templates of sorting.h take any vector.                   *)
(* Each element carries its input position in a field pos, which the        *)
(* algorithms copy with the element and the comparator does not read.        *)

Inputs == UNION {[1 .. n -> 1 .. MaxVal] : n \in 0 .. MaxLen}

\* the shortest vector of equal values that std::sort does not sort by
\* __insertion_sort
LongInput == [k \in 1 .. StdThreshold + 1 |-> 1]

\* a vector whose middle element, quick_sort_helper's pivot, is its median
PartitionExample == <<4, 1, 3, 2, 5>>

\* the shortest kind of vector on which pmerge_sort has two threads
\* comparing at the same time, those of [0, 2) and of [2, 4)
SiblingExample == <<2, 1, 4, 3>>

InitSort ==
    \E a \in Algos, v \in Inputs \cup {LongInput, PartitionExample, SiblingExample} :
       /\ v = LongInput => AlgoFn[a + 1] = "std_sort"
       /\ v = PartitionExample => AlgoFn[a + 1] = "quick_sort"
       /\ v = SiblingExample => AlgoFn[a + 1] = "pmerge_sort"
       /\ mode = "SORTING"
       /\ selected = [x \in Algos |-> x = a]
       /\ sort_n = Len(v)
       /\ sort_data = LET data == [k \in 1 .. Len(v) |->
                                     [value |-> v[k], timer |-> 0, pos |-> k]]
                      IN  <<data, data>>
       /\ sort_queue = <<a>>
       /\ sort_threads = <<"not_joinable">>
       /\ window_m = Free
       /\ thr = <<>>
       /\ main = [pc |-> "loop", i |-> 0, di |-> 0, dj |-> 0]
       /\ window_open = TRUE
       /\ base = v
       /\ spawned = <<>>

\* sort_setup gives std_sort a shuffle of 1 .. n, whose values are distinct:
\* StdUndefined is a step of std_sort on other vectors only
SortNext == Run \/ \E id \in DOMAIN thr : StdUndefined(id)

SortSpec == InitSort /\ [][SortNext]_vars

FairSortSpec == SortSpec /\ WF_vars(Run)

-----------------------------------------------------------------------------
(* One call partition(v, cmp, lo, hi, p) with sort_cmp, made in a thread of  *)
(* its own on an arbitrary vector: with lo <= p < hi <= v.size(), as the     *)
(* helpers of sorting.h call it, and with hi < lo, where no index the call   *)
(* uses is outside v as long as lo and p are below v.size().                 *)

PartitionInit ==
    \E v \in Inputs \ {<<>>} :
    \E lo, p \in 0 .. Len(v) - 1, hi \in 0 .. Len(v) :
       /\ (lo <= p /\ p < hi) \/ hi < lo
       /\ mode = "SORTING"
       /\ selected = [x \in Algos |-> FALSE]
       /\ sort_n = Len(v)
       /\ sort_data = LET data == [k \in 1 .. Len(v) |->
                                     [value |-> v[k], timer |-> 0, pos |-> k]]
                      IN  <<data, data>>
       /\ sort_queue = <<5>>
       /\ sort_threads = <<"joinable">>
       /\ window_m = Free
       /\ thr = (<<0>> :> PartBegin(Thread("partition", 0, lo, hi), lo, hi, p))
       /\ main = [pc |-> "launch_742", i |-> 0, di |-> 0, dj |-> 0]
       /\ window_open = TRUE
       /\ base = v
       /\ spawned = <<>>

PartitionNext ==
    \/ PartitionStep(<<0>>)
    \/ CmpSetX(<<0>>)
    \/ CmpSetY(<<0>>)
    \/ DrawLock(<<0>>)
    \/ DrawElement(<<0>>)
    \/ DrawUnlock(<<0>>)
    \/ CmpReturn(<<0>>)

PartitionSpec == PartitionInit /\ [][PartitionNext]_vars

-----------------------------------------------------------------------------
(* Properties *)

\* the algorithm of queue position d has returned
Returned(d) ==
    \/ <<d>> \in DOMAIN thr /\ thr[<<d>>].pc = "done"
    \/ main.pc = "launch_742" /\ d < main.i
    \/ main.pc \in {"draw_lock", "draw", "draw_unlock"}
    \/ mode = "SORTED"

\* the queue positions of the session
Queued == 0 .. Len(sort_queue) - 1

\* the threads inside sort_draw_data, between window_m.lock() and
\* window_m.unlock()
Publishing ==
    {id \in DOMAIN thr : thr[id].pc \in {"draw", "draw_unlock"}}
       \cup (IF main.pc \in {"draw", "draw_unlock"} THEN {MainId} ELSE {})

\* C1: when an algorithm has returned, every adjacent pair of its dataset
\* is in non-decreasing order of value, for every algorithm and every input
\* vector
C1_SortedOnReturn ==
    \A d \in Queued : Returned(d) => Sorted(Values(At(sort_data, d)))

\* C2: when an algorithm has returned, its dataset holds the same multiset
\* of values as its input, for every algorithm and every input vector
C2_PermutationOnReturn ==
    \A d \in Queued : Returned(d) => SameMultiset(Values(At(sort_data, d)), base)

\* C3: at most one thread at a time is inside sort_draw_data, between
\* window_m.lock() and window_m.unlock()
C3_PublishExclusive == Cardinality(Publishing) <= 1

\* a thread is inside sort_draw_data while another one waits for window_m
C3_Contended ==
    \E a, b \in DOMAIN thr :
       a # b /\ thr[a].pc = "draw" /\ thr[b].pc = "draw_lock"

\* C4: sort_draw_data(true) and the change to mode SORTED happen only when
\* no thread of the run, top-level or spawned inside a parallel sort, is left
C4_CompletedAfterJoins ==
    (main.pc \in {"draw_lock", "draw", "draw_unlock"} \/ mode = "SORTED")
       => DOMAIN thr = {}

\* sort_draw_data(true) is under way after a run of two algorithms, one of
\* them a parallel sort that spawned threads of its own
C4_CompletedParallel ==
    /\ main.pc = "draw"
    /\ Len(sort_queue) = 2
    /\ sort_n = 2
    /\ \E i \in 1 .. Len(spawned) : spawned[i].fn = "pmerge_sort"

\* C7: when two or more algorithms have run concurrently, each one's final
\* dataset holds the multiset of values of the base
C7_FinalMultiset ==
    (mode = "SORTED" /\ Len(sort_queue) >= 2)
       => \A d \in Queued : SameMultiset(Values(At(sort_data, d)), base)

\* two algorithms have run on an unsorted base of two elements
C7_TwoFinished ==
    /\ mode = "SORTED"
    /\ Len(sort_queue) = 2
    /\ Len(base) = 2
    /\ ~Sorted(base)
    /\ \A d \in Queued : Values(At(sort_data, d)) # base

\* C10: sort_launch starts one thread a queue position: thread i runs the
\* algorithm sort_queue[i] on dataset i, and no two threads are given the
\* same dataset or the same algorithm
C10_OneThreadPerAlgorithm ==
    (main.pc # "loop" \/ mode = "SORTED") =>
       /\ sort_queue = SelectedFrom(0)
       /\ Len(spawned) <= Len(sort_queue)
       /\ main.pc \in {"loop", "launch_742", "draw_lock", "draw", "draw_unlock"}
             => Len(spawned) = Len(sort_queue)
       /\ \A i \in 1 .. Len(spawned) :
             /\ spawned[i].fn = AlgoFn[sort_queue[i] + 1]
             /\ spawned[i].d = i - 1
       /\ \A i, j \in 1 .. Len(spawned) :
             i # j => spawned[i].d # spawned[j].d /\ spawned[i].fn # spawned[j].fn
       /\ \A id \in DOMAIN thr :
             Len(id) = 1 => /\ id[1] \in Queued
                            /\ thr[id].d = id[1]
                            /\ thr[id].fn = AlgoFn[sort_queue[id[1] + 1] + 1]

\* both threads of a session of two algorithms are started
C10_TwoStarted ==
    /\ main.pc = "launch_742"
    /\ main.i = 0
    /\ Len(sort_queue) = 2
    /\ Len(spawned) = 2

\* the pcs of the statements that read or write v
StatementPcs ==
    SelectionPcs \cup InsertionPcs \cup BubblePcs \cup MergePcs \cup PartitionPcs
       \cup StdSortPcs

\* the elements <<dataset, index>> the next step of thread t reads: a
\* statement of its algorithm, `x.value <= y.value` of sort_cmp, or the
\* element of sort_draw_data's loop (its value and its timer)
Reads(t) ==
    CASE t.pc \in StatementPcs -> {<<t.d, j>> : j \in Statement(t).r}
      [] t.pc = "cmp_ret"      -> {<<t.d, x>> : x \in {t.cx, t.cy} \ {Local}}
      [] t.pc = "draw"         -> {<<t.di, t.dj>>}
      [] OTHER                 -> {}

\* the elements the next step of thread t writes: a statement of its
\* algorithm, `x.timer = 5` and `y.timer = 5` of sort_cmp, or `timer--` of
\* sort_draw_data
Writes(t) ==
    CASE t.pc \in StatementPcs ->
           IF Statement(t).w = NoWrite THEN {} ELSE {<<t.d, Statement(t).w[1]>>}
      [] t.pc = "cmp_x" -> IF t.cx = Local THEN {} ELSE {<<t.d, t.cx>>}
      [] t.pc = "cmp_y" -> IF t.cy = Local THEN {} ELSE {<<t.d, t.cy>>}
      [] t.pc = "draw"  ->
           IF At(At(sort_data, t.di), t.dj).timer > 0 THEN {<<t.di, t.dj>>} ELSE {}
      [] OTHER -> {}

\* C5: no element of a dataset is accessed by two threads at the same
\* time: no thread is about to write an element that another thread is about
\* to read or write
C5_NoConcurrentAccess ==
    \A a, b \in DOMAIN thr :
       a # b => Writes(thr[a]) \cap (Reads(thr[b]) \cup Writes(thr[b])) = {}

\* thread t has made some and not all of the writes of a swap (selection,
\* bubble), of a step of insertion_sort's rotation, of merge's copy-back, of
\* partition's write-back or of an insertion of std::sort
MidWrite(t) ==
    \/ t.pc \in {"sel_48", "ins_65", "bub_83", "par_177", "std_put0"}
    \/ t.pc = "mrg_118" /\ t.s > 0
    \/ t.pc = "par_175" /\ t.j > 0
    \/ t.pc = "par_176" /\ Len(t.u1) > 0
    \/ t.pc = "std_mb" /\ t.j < t.i
    \/ /\ t.pc \in {"std_shift", "std_put"} \/ t.ret = "std_unguarded"
       /\ t.s < t.i

\* no thread is in the middle of its writes to dataset d
AtRest(d) == \A id \in DOMAIN thr : thr[id].d = d => ~MidWrite(thr[id])

\* C6 as stated: at every state of a run each dataset holds the multiset of
\* values of the base
C6_MultisetAlways ==
    \A d \in 0 .. Len(sort_data) - 1 :
       SameMultiset(Values(At(sort_data, d)), base)

\* C6: each dataset holds the multiset of values of the base whenever no
\* thread is between the writes of a swap, a rotation or a copy-back on it
C6_MultisetAtRest ==
    \A d \in 0 .. Len(sort_data) - 1 :
       AtRest(d) => SameMultiset(Values(At(sort_data, d)), base)

\* a thread's sort_draw_data is reading the datasets while another thread,
\* still sorting and at rest, has reordered its dataset
C6_PublishReadsReordered ==
    \E a, b \in DOMAIN thr :
       /\ a # b
       /\ thr[a].pc = "draw"
       /\ thr[b].pc # "done"
       /\ AtRest(thr[b].d)
       /\ Values(At(sort_data, thr[b].d)) # base

\* C8: a started run completes: once mode is SORTING, every thread
\* terminates, sort_launch returns and mode becomes SORTED, whatever events
\* arrive meanwhile
C8_RunCompletes == (mode = "SORTING") ~> (mode = "SORTED")

\* main waits in join() for a thread that waits for window_m, which a third
\* thread holds
C8_JoinWaitsForPublish ==
    /\ main.pc = "launch_742"
    /\ \E a, b \in DOMAIN thr :
          /\ a # b
          /\ thr[a].pc = "draw_lock"
          /\ window_m = b

\* every pivot rpquick_sort_helper has chosen is an index of its range, and
\* the range of each thread it spawned is part of and shorter than its own
RPQuickRanges ==
    \A id \in DOMAIN thr :
       IsRPQuick(thr[id].fn) =>
          LET t == thr[id] IN
          /\ (t.pc \in PartitionPcs \/ t.ret = "par_170")
                => t.lo <= t.s /\ t.s < t.hi
          /\ Len(id) > 1 =>
                /\ Front(id) \in DOMAIN thr
                /\ thr[Front(id)].lo <= t.lo
                /\ t.hi <= thr[Front(id)].hi
                /\ t.hi - t.lo < thr[Front(id)].hi - thr[Front(id)].lo

\* C9: rpquick_sort terminates on every input and for every choice of
\* pivots: each pivot index is in [lo, hi), each recursive call is given a
\* range shorter than its caller's, and the run ends
C9_RPQuickTerminates ==
    /\ []RPQuickRanges
    /\ (mode = "SORTING" /\ AlgoFn[sort_queue[1] + 1] = "rpquick_sort")
          ~> (mode = "SORTED")

\* rpquick_sort_helper has recursed twice on a vector of equal values
C9_RecursedOnEqual ==
    /\ base = [k \in 1 .. MaxLen |-> 1]
    /\ \E id \in DOMAIN thr : Len(id) = 3 /\ IsRPQuick(thr[id].fn)

\* a run is about to start: sort_setup or R has set mode SORTING and draw()
\* has not called sort_launch yet
RunStart == mode = "SORTING" /\ main.pc = "loop"

\* C11: at the start of every run, the first one and every restart, all the
\* datasets handed to the algorithms hold the same sequence of values
C11_IdenticalInputs ==
    RunStart =>
       \A d, e \in Queued : Values(At(sort_data, d)) = Values(At(sort_data, e))

\* a run of two algorithms on an unsorted base of two elements is about to
\* start again: the timers its first run left are still there
C11_RestartOfTwo ==
    /\ RunStart
    /\ Len(sort_queue) = 2
    /\ sort_n = 2
    /\ ~Sorted(base)
    /\ \E d \in Queued : At(At(sort_data, d), 0).timer > 0

C13_EndPublish ==
    [][main.pc \in {"draw_lock", "draw", "draw_unlock"} =>
          /\ DOMAIN thr = {}
          /\ \A i \in 1 .. Len(sort_threads) : sort_threads[i] = "not_joinable"
          /\ sort_data' = sort_data
          /\ main.pc = "draw_lock" => main'.pc \in {"draw", "draw_unlock"}
          /\ main.pc = "draw" =>
                window_m = MainId /\ main'.pc \in {"draw", "draw_unlock"}
          /\ main.pc = "draw_unlock" =>
                main'.pc = "loop" /\ mode' = "SORTED" /\ window_m' = Free
       ]_vars

\* the closing publish is at an element whose timer is still above 0
C13_EndDrawsTimedElement ==
    /\ main.pc = "draw"
    /\ At(At(sort_data, main.di), main.dj).timer > 0

\* C14: merge sort is stable: when it has returned, elements of equal value
\* are in the order of their input positions
C14_MergeSortStable ==
    \A d \in Queued :
       Returned(d) /\ AlgoFn[At(sort_queue, d) + 1] \in {"merge_sort", "pmerge_sort"} =>
          LET v == At(sort_data, d) IN
          \A i, j \in 1 .. Len(v) :
             i < j /\ v[i].value = v[j].value => v[i].pos < v[j].pos

\* merge_sort has returned from [2, 1, 2] with the 1 in front and the two 2s
\* in their input order
C14_TiesKeptInOrder ==
    /\ base = <<2, 1, 2>>
    /\ AlgoFn[At(sort_queue, 0) + 1] = "merge_sort"
    /\ Returned(0)
    /\ [k \in 1 .. 3 |-> At(sort_data, 0)[k].pos] = <<2, 1, 3>>

\* quick_sort on PartitionExample is back from partition(v, cmp, 0, 5, 2),
\* its first, and no element has been written since: the frame of the call
\* of quick_sort_helper(v, cmp, 0, 5) holds what partition returned
C15_ExamplePartitioned ==
    /\ base = PartitionExample
    /\ <<0>> \in DOMAIN thr
    /\ LET t == thr[<<0>>] IN
       /\ t.fn = "quick_sort"
       /\ Len(t.stk) = 2
       /\ t.stk[1].st = 1
       /\ t.pc = "par_165"

\* C15: partition of [4, 1, 3, 2, 5] over the whole range around index 2
\* (value 3) puts the pivot at index 2, with 1 and 2 on its left and 4 and 5
\* on its right, and returns 2
C15_PartitionExample ==
    C15_ExamplePartitioned =>
       LET v == Values(At(sort_data, 0)) IN
       /\ thr[<<0>>].stk[1].p = 2
       /\ At(v, 2) = 3
       /\ {At(v, 0), At(v, 1)} = {1, 2}
       /\ {At(v, 3), At(v, 4)} = {4, 5}

\* C15 as stated: the pivot is at index 1 and partition returns 1
C15_PivotAtIndexOne ==
    C15_ExamplePartitioned =>
       /\ thr[<<0>>].stk[1].p = 1
       /\ At(Values(At(sort_data, 0)), 1) = 3

\* C16: in partition only elements of a value strictly below the pivot's go
\* to the buffer written back on the pivot's left (u1); those of the pivot's
\* value go to u2 and end on its right
C16_EqualGoRight ==
    \A id \in DOMAIN thr :
       LET t == thr[id] IN
       IsPQuick(t.fn) \/ IsRPQuick(t.fn) \/ t.fn = "quick_sort" =>
          \A k \in 1 .. Len(t.u1) : t.u1[k].value < t.tmp.value

\* C17: run on the same base, an algorithm that has returned has left the
\* value sequence that std_sort, the baseline, has left when it has returned
C17_AgreesWithBaseline ==
    \A d, e \in Queued :
       /\ AlgoFn[At(sort_queue, e) + 1] = "std_sort"
       /\ Returned(d) /\ Returned(e)
       => Values(At(sort_data, d)) = Values(At(sort_data, e))

\* bubble_sort and std_sort have both returned from the base [2, 1]
C17_BaselineAndBubble ==
    /\ base = <<2, 1>>
    /\ Len(sort_queue) = 2
    /\ AlgoFn[At(sort_queue, 0) + 1] = "bubble_sort"
    /\ AlgoFn[At(sort_queue, 1) + 1] = "std_sort"
    /\ Returned(0) /\ Returned(1)
    /\ mode = "SORTING"

\* C18: a run started with no algorithm selected has no dataset, no thread
\* handle and no sort thread, starts none (so no comparison is made), and
\* ends in mode SORTED
C18_EmptySelectionRun ==
    /\ [](sort_queue = <<>> /\ mode \in {"SORTING", "SORTED"} =>
             /\ sort_data = <<>>
             /\ sort_threads = <<>>
             /\ DOMAIN thr = {}
             /\ (main.pc # "loop" \/ mode = "SORTED") => spawned = <<>>)
    /\ (sort_queue = <<>> /\ mode = "SORTING")
          ~> (sort_queue = <<>> /\ mode = "SORTED")

\* a run with no algorithm selected and Quantity 2 is over
C18_EmptyRunOver ==
    /\ mode = "SORTED"
    /\ sort_queue = <<>>
    /\ sort_n = 2
    /\ \A a \in Algos : ~selected[a]

\* C19: on an empty dataset every algorithm returns at once: its thread is
\* never found calling the comparator or with a thread of its own started,
\* and the dataset stays empty
C19_EmptyDatasetReturns ==
    sort_n = 0 /\ mode \in {"SORTING", "SORTED"} =>
       /\ \A id \in DOMAIN thr : Len(id) = 1 /\ thr[id].pc = "done"
       /\ \A d \in Queued : At(sort_data, d) = <<>>

\* pmerge_sort and std_sort have been started on empty datasets
C19_ParallelOnEmpty ==
    /\ sort_n = 0
    /\ <<0>> \in DOMAIN thr /\ thr[<<0>>].fn = "pmerge_sort"
    /\ <<1>> \in DOMAIN thr /\ thr[<<1>>].fn = "std_sort"

\* C20: while a session exists there are as many thread handles as queued
\* algorithms, and one dataset more than that when an algorithm is queued
\* (none when the queue is empty)
C20_SessionSizes ==
    mode \in {"SORTING", "SORTED"} =>
       /\ Len(sort_threads) = Len(sort_queue)
       /\ Len(sort_data) = IF sort_queue = <<>> THEN 0 ELSE Len(sort_queue) + 1

\* C20 as stated: sort_data, sort_threads and sort_queue have one size
C20_EqualSizes ==
    mode \in {"SORTING", "SORTED"} =>
       /\ Len(sort_data) = Len(sort_threads)
       /\ Len(sort_threads) = Len(sort_queue)

\* two algorithms are running and a third dataset holds the shuffled base
C20_SessionOfTwo ==
    /\ mode = "SORTING"
    /\ Len(sort_queue) = 2
    /\ Len(sort_data) = 3
    /\ main.pc = "launch_742"
    /\ \E k \in 0 .. sort_n - 1 : At(At(sort_data, 2), k).value # k + 1

\* C21: the restart taken in mode SORTED gives every dataset handed to an
\* algorithm the value sequence of the dataset after them, sort_data[k] for
\* k queued algorithms, which no algorithm has sorted: the shuffled base of
\* the run before is the base of the new run
C21_RestartFromSpare ==
    [][mode = "SORTED" /\ mode' = "SORTING" =>
          \A d \in Queued :
             Values(At(sort_data', d)) = Values(At(sort_data, Len(sort_queue)))
      ]_vars

\* C21 as stated: every dataset is given the final value sequence of the
\* first one
C21_RestartFromFirstFinal ==
    [][mode = "SORTED" /\ mode' = "SORTING" =>
          \A d \in Queued : Values(At(sort_data', d)) = Values(At(sort_data, 0))
      ]_vars

\* a run of one algorithm on three elements has been restarted: the timers
\* are those of the run before, the values those of the unsorted base
C21_RestartedUnsorted ==
    /\ RunStart
    /\ Len(sort_queue) = 1 /\ sort_n = 3
    /\ \E k \in 0 .. 2 : At(At(sort_data, 0), k).timer > 0
    /\ ~Sorted(Values(At(sort_data, 0)))

\* C22: when the mode leaves SORTED for another mode than SORTING (Escape,
\* Enter, Backspace) the session is destroyed, sort_data, sort_queue and
\* sort_threads are empty in the next mode; when it leaves SORTED for
\* SORTING (R) the three keep their sizes
C22_TeardownOnLeave ==
    [][mode = "SORTED" /\ mode' # "SORTED" =>
          IF mode' = "SORTING"
          THEN /\ Len(sort_data') = Len(sort_data)
               /\ sort_queue' = sort_queue
               /\ sort_threads' = sort_threads
          ELSE sort_data' = <<>> /\ sort_queue' = <<>> /\ sort_threads' = <<>>
      ]_vars

\* C22 as stated: whatever the event that makes the mode leave SORTED, the
\* three are empty in the next mode
C22_DestroyedOnAnyLeave ==
    [][mode = "SORTED" /\ mode' # "SORTED" =>
          sort_data' = <<>> /\ sort_queue' = <<>> /\ sort_threads' = <<>>
      ]_vars

\* the session of a run that started threads has been torn down
C22_TornDown ==
    /\ mode = "CONFIG"
    /\ spawned # <<>>
    /\ sort_data = <<>> /\ sort_queue = <<>> /\ sort_threads = <<>>

\* C23: a call of a range helper with lo > hi does not go through: it
\* never returns as a call with a valid range does, and the dataset keeps
\* the values it had
C23_InvalidRangeRejected ==
    \A id \in DOMAIN thr :
       thr[id].lo > thr[id].hi =>
          /\ thr[id].pc # "done"
          /\ Values(At(sort_data, thr[id].d)) = base

\* C24: a step of a publish, at element (di, dj), changes no value; a
\* comparator's publish takes one off the timer of the element if it is
\* above 0 and leaves the other timers alone, the closing publish leaves all
\* timers alone
C24_PublishCountsDown ==
    [][\A r \in {thr[id] : id \in {x \in DOMAIN thr \cap DOMAIN thr' :
                                      thr'[x] # thr[x]}}
              \cup (IF main' # main THEN {main} ELSE {}) :
          r.pc = "draw" =>
             \A d \in 0 .. Len(sort_data) - 1 :
                /\ Len(At(sort_data', d)) = Len(At(sort_data, d))
                /\ \A j \in 0 .. Len(At(sort_data, d)) - 1 :
                      LET e == At(At(sort_data, d), j) IN
                      At(At(sort_data', d), j) =
                         IF r # main /\ d = r.di /\ j = r.dj /\ e.timer > 0
                         THEN [e EXCEPT !.timer = e.timer - 1]
                         ELSE e
      ]_vars

\* C24 as stated: a step of a publish changes no value and no timer
C24_PublishChangesNothing ==
    [][(\/ main.pc = "draw" /\ main' # main
        \/ \E id \in DOMAIN thr \cap DOMAIN thr' :
              thr[id].pc = "draw" /\ thr'[id] # thr[id])
          => sort_data' = sort_data
      ]_vars

\* the publish of a comparison is at an element whose timer is above 0
C24_PublishAtTimedElement ==
    \E id \in DOMAIN thr :
       /\ thr[id].pc = "draw"
       /\ At(At(sort_data, thr[id].di), thr[id].dj).timer > 0

\* C25: no step taken in mode SORTING or SORTED changes an algorithm's
\* selected flag; a flag changes in a step from CONFIG to CONFIG only
C25_SelectionFrozen ==
    [][/\ mode \in {"SORTING", "SORTED"} => selected' = selected
       /\ selected' # selected => mode = "CONFIG" /\ mode' = "CONFIG"
      ]_vars

\* R has been pressed in mode SORTED: the run of the selected algorithm on
\* two elements starts again
C25_RestartedWithSelection ==
    /\ RunStart
    /\ NumSelected = 1 /\ sort_queue = SelectedFrom(0)
    /\ sort_n = 2
    /\ \E k \in 0 .. 1 : At(At(sort_data, 0), k).timer > 0

\* C26: partition(v, cmp, lo, hi, p) with lo <= p < hi <= v.size() returns
\* k, the number of elements of [lo, hi) other than the pivot for which
\* cmp(element, pivot) is true.  v[lo + k] is the pivot, v[lo .. lo + k) are
\* those k elements and v[lo + k + 1 .. hi) the others, each group in its
\* input order, and the elements outside [lo, hi) are as they were.
\* sort_data[1] holds the input.
C26_PartitionContract ==
    \A id \in DOMAIN thr :
       LET t == thr[id]
           v == At(sort_data, 0)
           input == At(sort_data, 1)
           k == t.i
           True == {j \in (t.lo .. t.hi - 1) \ {t.s} :
                       At(input, j).value <= At(input, t.s).value}
           \* v[a .. b) holds, in their input order, the elements of the
           \* input at the indices in from
           Holds(a, b, from) ==
               /\ \A j \in a .. b - 1 :
                     /\ At(v, j).pos - 1 \in from
                     /\ At(v, j).value = At(input, At(v, j).pos - 1).value
               /\ \A j1, j2 \in a .. b - 1 :
                     j1 < j2 => At(v, j1).pos < At(v, j2).pos
       IN  t.fn = "partition" /\ t.pc = "done" /\ t.lo <= t.s /\ t.s < t.hi =>
              /\ k = Cardinality(True)
              /\ Holds(t.lo + k, t.lo + k + 1, {t.s})
              /\ Holds(t.lo, t.lo + k, True)
              /\ Holds(t.lo + k + 1, t.hi, ((t.lo .. t.hi - 1) \ {t.s}) \ True)
              /\ \A j \in 0 .. Len(v) - 1 :
                    j < t.lo \/ j >= t.hi => At(v, j) = At(input, j)

\* partition(v, cmp, 0, 2, 1) has returned 1 from [2, 2, 1]: the element
\* equal to the pivot is on its left, the 1 outside the range is in place
C26_PartitionedPrefix ==
    /\ base = <<2, 2, 1>>
    /\ <<0>> \in DOMAIN thr
    /\ LET t == thr[<<0>>] IN
       /\ t.fn = "partition" /\ t.pc = "done"
       /\ t.lo = 0 /\ t.hi = 2 /\ t.s = 1
       /\ t.i = 1

\* C27: while a thread started by a call of pmerge_sort_helper, or by one
\* of the calls under it, is not joined, the call is between the spawn of
\* `head` and tail.join(): it is not in merge, not in the comparator and
\* not in a publish, and reads and writes no element
C27_MergeAfterJoins ==
    \A id, c \in DOMAIN thr :
       /\ IsPMerge(thr[id].fn)
       /\ Len(c) > Len(id) /\ SubSeq(c, 1, Len(id)) = id
       => /\ thr[id].pc \in {"spawn_tail", "join_head", "join_tail"}
          /\ Reads(thr[id]) = {} /\ Writes(thr[id]) = {}

\* pmerge_sort on three elements has joined its two threads, of which the
\* second has merged [1, 3), and is in the merge of [0, 3)
C27_RootMerging ==
    /\ DOMAIN thr = {<<0>>}
    /\ thr[<<0>>].fn = "pmerge_sort"
    /\ thr[<<0>>].pc \in MergePcs
    /\ thr[<<0>>].hi = 3
    /\ At(At(sort_data, 0), 2).timer > 0

\* C28: of two threads of a parallel sort that run at the same time (each
\* past its start and not in a spawn or a join), neither is about to read or
\* write an element of the range [lo, hi) of the other, and the two ranges
\* are disjoint
C28_DisjointAccess ==
    \A a, b \in DOMAIN thr :
       LET ta == thr[a]
           tb == thr[b]
           Blocked == {"spawn_head", "spawn_tail", "join_head", "join_tail",
                       "done", "fault"}
       IN  /\ a # b /\ ta.d = tb.d
           /\ IsPMerge(ta.fn) \/ IsPQuick(ta.fn) \/ IsRPQuick(ta.fn)
           /\ ta.pc \notin Blocked /\ tb.pc \notin Blocked
           => /\ ta.hi <= tb.lo \/ tb.hi <= ta.lo
              /\ \A e \in Reads(ta) \cup Writes(ta) :
                    ~(e[1] = tb.d /\ tb.lo <= e[2] /\ e[2] < tb.hi)

\* C29: a call of a parallel helper that has returned has joined every
\* thread started under it.  On a range of n < 2 elements it started none;
\* on n >= 2 elements pmerge_sort_helper and the threads under it started
\* 2(n - 1) threads, the parallel quick sorts at least 2 and at most 2(n - 1)
C29_ThreadsPerCall ==
    \A id \in DOMAIN thr :
       LET t == thr[id]
           n == t.hi - t.lo
       IN  t.pc = "done" /\ (IsPMerge(t.fn) \/ IsPQuick(t.fn) \/ IsRPQuick(t.fn)) =>
              /\ \A c \in DOMAIN thr :
                    ~(Len(c) > Len(id) /\ SubSeq(c, 1, Len(id)) = id)
              /\ n < 2 => t.forks = 0
              /\ n >= 2 /\ IsPMerge(t.fn) => t.forks = 2 * (n - 1)
              /\ n >= 2 /\ ~IsPMerge(t.fn) => 2 <= t.forks /\ t.forks <= 2 * (n - 1)

\* pmerge_sort has returned from SiblingExample: six threads were started
C29_SixThreads ==
    /\ base = SiblingExample
    /\ <<0>> \in DOMAIN thr
    /\ thr[<<0>>].pc = "done"
    /\ thr[<<0>>].forks = 6

\* C30: outside a session (modes START, HELP and CONFIG, where sort_setup is
\* called) sort_data, sort_queue and sort_threads are empty; in a session
\* sort_queue holds the indices of the selected algorithms, each once and in
\* registration order, and sort_threads has its length
C30_SetupFromEmpty ==
    IF mode \in {"SORTING", "SORTED"}
    THEN sort_queue = SelectedFrom(0) /\ Len(sort_threads) = Len(sort_queue)
    ELSE sort_data = <<>> /\ sort_queue = <<>> /\ sort_threads = <<>>

\* a run of one algorithm is set up after the teardown of a run of two
\* others, whose threads are those last started
C30_SecondSetup ==
    /\ RunStart
    /\ Len(sort_queue) = 1
    /\ Len(spawned) = 2
    /\ \A i \in 1 .. 2 : spawned[i].fn # AlgoFn[At(sort_queue, 0) + 1]
    /\ sort_n = 2
    /\ \A k \in 0 .. 1 : At(At(sort_data, 0), k).timer = 0

\* C31: a session of k >= 1 algorithms has k + 1 datasets.  The last one,
\* sort_data[k], holds the shuffled base with every timer at 0: no thread
\* sorts it, no publish draws it and no step of the session changes it;
\* every run, the first and each restart, starts with its sequence in the k
\* datasets the algorithms sort
C31_SpareKeepsBase ==
    /\ [](mode \in {"SORTING", "SORTED"} /\ sort_queue # <<>> =>
             LET k == Len(sort_queue) IN
             /\ Len(sort_data) = k + 1
             /\ Values(At(sort_data, k)) = base
             /\ \A j \in 0 .. sort_n - 1 : At(At(sort_data, k), j).timer = 0
             /\ \A r \in {thr[id] : id \in DOMAIN thr} \cup {main} :
                   r.pc = "draw" => r.di < k
             /\ \A id \in DOMAIN thr : thr[id].d < k
             /\ RunStart =>
                   \A d \in Queued :
                      Values(At(sort_data, d)) = Values(At(sort_data, k)))
    /\ [][(mode \in {"SORTING", "SORTED"} /\ mode' \in {"SORTING", "SORTED"}
              /\ sort_queue # <<>>)
             => At(sort_data', Len(sort_queue)) = At(sort_data, Len(sort_queue))
         ]_vars

\* two algorithms have sorted [2, 1] and R was pressed: the three datasets
\* hold [2, 1] again, the first two with timers of the run before
C31_RestartedOnShuffle ==
    /\ RunStart
    /\ Len(sort_queue) = 2 /\ Len(sort_data) = 3
    /\ \A d \in 0 .. 2 : Values(At(sort_data, d)) = <<2, 1>>
    /\ \A d \in 0 .. 1 : \E j \in 0 .. 1 : At(At(sort_data, d), j).timer > 0

=============================================================================
